---- MODULE Spec2Model ----
(***************************************************************************)
(* Idempotent job-configuration engine of the anime transcoding pipeline.  *)
(*                                                                         *)
(* The model covers src/job_submitter/idempotency.py (the reservation      *)
(* store client on a DynamoDB table keyed by idempotency token) and the    *)
(* job-submitter Lambda handler of src/job_submitter/handler.py, run by    *)
(* several concurrent invocations.  Every DynamoDB request is one atomic   *)
(* step; a function that issues two requests (reserve_job_slot: put_item,  *)
(* then get_item; cleanup_expired_records: scan, then delete_item per      *)
(* item) takes one step per request.                                       *)
(***************************************************************************)
EXTENDS Integers, Sequences, FiniteSets, TLC

(* ------------------------------ bounds --------------------------------- *)

\* Concurrent handler invocations (Lambda executions) of the model.
NumProcs == 3

\* Of these, the invocations that run in Spec, where the clock, the store
\* outages, the status updates and the expiry are in play; SpecReserve runs
\* all NumProcs.
MaxInvocations == 2

\* The clock is read at most MaxTicks ticks after the start.
MaxTicks == 2

(* ----------------------------- constants ------------------------------- *)

\* idempotency.py:32, TTL for idempotency records (7 days).
IDEMPOTENCY_TTL_DAYS == 7

\* The clock advances by half the TTL, rounded up (4 days): a record
\* outlives one tick and has expired after two.
TickDays == (IDEMPOTENCY_TTL_DAYS + 1) \div 2

\* handler.py:45.
TRANSCODE_PROFILE_VERSION == "v1.0"

Procs == 1..NumProcs

\* Python's None where a dict is expected (a record, so that it compares
\* with records), and where a string is expected.
None == [None |-> TRUE]

NoneStr == "None"

\* The outcome of a call that raised instead of returning.
Raised == [Raised |-> TRUE]

\* The table holds no item under a key.
NoItem == [NoItem |-> TRUE]

\* No call made yet (a local variable not yet assigned).
Unset == [Unset |-> TRUE]

\* The statuses Step Functions reports with update_job_status when the
\* MediaConvert job completes or fails (idempotency.py:284-288).
FinalStatuses == {"COMPLETE", "ERROR"}

\* AudioLanguage values (models.py:18-30) in the order Python's sorted()
\* puts the strings.
LanguageOrder == <<"de", "en", "es", "fr", "it", "ja", "ko", "pt", "ru", "zh">>

LanguageRank(l) == CHOOSE i \in 1..Len(LanguageOrder) : LanguageOrder[i] = l

RECURSIVE InsertSorted(_, _)
InsertSorted(l, s) ==
    IF s = <<>> THEN <<l>>
    ELSE IF LanguageRank(l) <= LanguageRank(Head(s)) THEN <<l>> \o s
    ELSE <<Head(s)>> \o InsertSorted(l, Tail(s))

\* sorted([t.language.value for t in manifest.audio_tracks])
RECURSIVE sorted(_)
sorted(s) == IF s = <<>> THEN <<>> ELSE InsertSorted(Head(s), sorted(Tail(s)))

Digits == <<"0", "1", "2", "3", "4", "5", "6", "7", "8", "9">>

\* str(n) of a non-negative int.
RECURSIVE str(_)
str(n) == IF n < 10 THEN Digits[n + 1] ELSE str(n \div 10) \o Digits[(n % 10) + 1]

\* sep.join(components).
RECURSIVE join(_, _)
join(sep, components) ==
    IF components = <<>> THEN ""
    ELSE IF Len(components) = 1 THEN components[1]
    ELSE components[1] \o sep \o join(sep, Tail(components))

\* str(l) of a list of strings: "['en', 'ja']".
strList(l) == "[" \o join(", ", [i \in 1..Len(l) |-> "'" \o l[i] \o "'"]) \o "]"

\* Bits of a SHA-256 digest; hexdigest() writes 4 bits per character.
SHA256_BITS == 256

\* hashlib.sha256(combined.encode()).hexdigest(): the digest is modelled by
\* its preimage (SHA-256 taken as collision-free) and its length.
sha256_hexdigest(combined) ==
    [ sha256 |-> combined, hex_chars |-> SHA256_BITS \div 4 ]

\* A token that takes the manifest's priority into the key as well.
generate_idempotency_token_with_priority(manifest, profile_version) ==
    sha256_hexdigest(join("|", << manifest.manifest_id, manifest.checksum_md5,
                                   str(manifest.file_size_bytes),
                                   strList(sorted(manifest.audio_languages)),
                                   str(manifest.priority), profile_version >>))

\* generate_idempotency_token (idempotency.py:60-69).
generate_idempotency_token(manifest, profile_version) ==
    LET key_components ==
          << manifest.manifest_id,
             manifest.checksum_md5,
             str(manifest.file_size_bytes),
             strList(sorted(manifest.audio_languages)),
             profile_version >>
    IN sha256_hexdigest(join("|", key_components))

\* Manifests for the token: one manifest and what becomes of it when
\* priority, callback_url, the order of the audio tracks, the set of audio
\* languages, the checksum, the size or the id change.
BaseManifest ==
    [ manifest_id |-> "ep-001", checksum_md5 |-> "d41d8cd98f00b204e9800998ecf8427e",
      file_size_bytes |-> 1024, audio_languages |-> <<"ja", "en">>,
      priority |-> 0, callback_url |-> NoneStr ]

TokenManifests ==
    { BaseManifest,
      [BaseManifest EXCEPT !.priority = 10],
      [BaseManifest EXCEPT !.callback_url = "https://example.com/done"],
      [BaseManifest EXCEPT !.audio_languages = <<"en", "ja">>],
      [BaseManifest EXCEPT !.priority = 5, !.audio_languages = <<"en", "ja">>,
                           !.callback_url = "https://example.com/done"],
      [BaseManifest EXCEPT !.audio_languages = <<"ja">>],
      [BaseManifest EXCEPT !.audio_languages = <<"ja", "en", "ja">>],
      [BaseManifest EXCEPT !.checksum_md5 = "0cc175b9c0f1b6a831c399e269772661"],
      [BaseManifest EXCEPT !.checksum_md5 = "0cc175b9c0f1b6a831c399e269772661",
                           !.priority = 10],
      [BaseManifest EXCEPT !.file_size_bytes = 10240],
      [BaseManifest EXCEPT !.manifest_id = "ep-002"] }

\* handler.py:43-44: the version is incremented when the settings change.
ProfileVersions == {TRANSCODE_PROFILE_VERSION, "v1.1"}

\* Job ids MediaConvert hands out.
JobIds == {"job-1"}

\* The event's output_s3_prefix, which the manifest parser derives from the
\* manifest (manifest_parser/handler.py:172).
OutputPrefix(manifest) == "s3://out/" \o manifest.manifest_id

VARIABLES
    table,        \* the DynamoDB idempotency table: token -> item or NoItem
    now,          \* the clock, in days
    storeUp,      \* whether DynamoDB answers requests
    pc,           \* where each handler invocation stands
    event,        \* the invocation's event: manifest, prefix, force_reprocess
    returned,     \* the last handler return: who, reserve_job_slot's result, response
    updateRet,    \* what the last store_job_reference/update_job_status returned
    cleanupItems, \* cleanup_expired_records: scanned items still to delete
    returns,      \* history (SpecReserve): every invocation's reserve_job_slot result
    calls         \* the last two calls of the pure functions: arguments and result

vars == << table, now, storeUp, pc, event, returned, updateRet, cleanupItems, returns,
           calls >>

\* dict.get(key): the attribute, or None when the item lacks it.
Get(item, key) == IF key \in DOMAIN item THEN item[key] ELSE NoneStr

\* Python truthiness of an optional string argument (`if job_id:`).
Truthy(x) == x \notin {NoneStr, ""}

(* ---------------------------- DynamoDB --------------------------------- *)
(* Items carry the attributes the code reads back: idempotency_token,      *)
(* manifest_id, status, output_prefix, job_id, created_at, ttl.  The       *)
(* write-only attributes updated_at and error_message are left out.        *)

\* A put_item without the ConditionExpression: it overwrites.
put_item_unconditional(t) == TRUE

\* ConditionExpression="attribute_not_exists(idempotency_token)".
attribute_not_exists(t) == table[t] = NoItem

\* A rejected put_item that pushes the expiry of the item it found.
put_item_rejected_extending_ttl(t) ==
    [ ttl |-> now + IDEMPOTENCY_TTL_DAYS ] @@ table[t]

\* A put_item whose ConditionExpression fails
\* (ConditionalCheckFailedException): the item under the key stays as it is.
put_item_rejected(t) == table[t]

\* An update_item whose expression also sets a fresh ttl.
update_item_refreshing_ttl(t, attrs) ==
    [ ttl |-> now + IDEMPOTENCY_TTL_DAYS ] @@ attrs
    @@ (IF table[t] = NoItem THEN [idempotency_token |-> t] ELSE table[t])

\* update_item without a ConditionExpression: sets the attributes on the
\* item under the key, creating the item when the key holds none.
update_item(t, attrs) ==
    attrs @@ (IF table[t] = NoItem THEN [idempotency_token |-> t] ELSE table[t])

\* An item whose ttl attribute lies in the past (FilterExpression
\* "ttl < :now"; items without the attribute never match).
Expired(t) == table[t] # NoItem /\ "ttl" \in DOMAIN table[t] /\ table[t].ttl < now

(* ------------------------- idempotency.py ------------------------------ *)

\* A check_idempotency that answers from the table during an outage too.
check_idempotency_unguarded(t) ==
    IF table[t] # NoItem THEN table[t] ELSE None

\* check_idempotency: a consistent get_item; any exception is logged and
\* the function returns None.
check_idempotency(t) ==
    IF storeUp /\ table[t] # NoItem THEN table[t] ELSE None

\* The item reserve_job_slot puts.
PendingItem(t, manifest_id, output_prefix) ==
    [ idempotency_token |-> t, manifest_id |-> manifest_id, status |-> "PENDING",
      output_prefix |-> output_prefix, created_at |-> now,
      ttl |-> now + IDEMPOTENCY_TTL_DAYS ]

\* A reserve_job_slot that takes a failed put_item for a reservation.
ReserveAssumesExclusivity == [reserved |-> TRUE]

\* reserve_job_slot when put_item fails for another reason than the
\* condition: the ClientError is re-raised, any other exception is wrapped
\* in IdempotencyError.
ReserveStoreError == Raised

\* An update that reports success whatever the store did.
UpdateResultAlwaysTrue(ok) == [returned |-> TRUE]

\* The outcome of store_job_reference and update_job_status: they return
\* True after update_item, False from the except branch.
UpdateResult(ok) == [returned |-> ok]

(* --------------------------- abr_ladder.py ----------------------------- *)
(* An ABRVariant's resolution string "1920x1080" is written as the pair    *)
(* <<1920, 1080>>; width and height read its two parts.                    *)

\* models.py:409-417, ABRVariant.width and ABRVariant.height.
width(variant) == variant.resolution[1]

height(variant) == variant.resolution[2]

\* abr_ladder.py:19-52.
ABR_LADDER_H264 ==
    << [ resolution |-> <<1920, 1080>>, bitrate_kbps |-> 6000, codec |-> "h264",
         profile |-> "high", level |-> "4.2" ],
       [ resolution |-> <<1280, 720>>, bitrate_kbps |-> 3500, codec |-> "h264",
         profile |-> "high", level |-> "4.0" ],
       [ resolution |-> <<854, 480>>, bitrate_kbps |-> 1800, codec |-> "h264",
         profile |-> "main", level |-> "3.1" ],
       [ resolution |-> <<640, 360>>, bitrate_kbps |-> 800, codec |-> "h264",
         profile |-> "main", level |-> "3.0" ] >>

\* An H.265 ladder whose 1080p rung saves nothing over H.264.
ABR_LADDER_H265_no_saving ==
    << [ resolution |-> <<1920, 1080>>, bitrate_kbps |-> 6000, codec |-> "h265",
         profile |-> "main", level |-> "4.0" ],
       [ resolution |-> <<1280, 720>>, bitrate_kbps |-> 2500, codec |-> "h265",
         profile |-> "main", level |-> "4.0" ] >>

\* An H.265 ladder with a rung below the lowest H.264 rung.
ABR_LADDER_H265_with_240p ==
    << [ resolution |-> <<1920, 1080>>, bitrate_kbps |-> 4500, codec |-> "h265",
         profile |-> "main", level |-> "4.0" ],
       [ resolution |-> <<1280, 720>>, bitrate_kbps |-> 2500, codec |-> "h265",
         profile |-> "main", level |-> "4.0" ],
       [ resolution |-> <<426, 240>>, bitrate_kbps |-> 300, codec |-> "h265",
         profile |-> "main", level |-> "4.0" ] >>

\* abr_ladder.py:59-76.
ABR_LADDER_H265 ==
    << [ resolution |-> <<1920, 1080>>, bitrate_kbps |-> 4500, codec |-> "h265",
         profile |-> "main", level |-> "4.0" ],
       [ resolution |-> <<1280, 720>>, bitrate_kbps |-> 2500, codec |-> "h265",
         profile |-> "main", level |-> "4.0" ] >>

\* VideoCodec values (models.py:62-66) in string order.
CodecOrder == <<"h264", "h265">>

CodecRank(codec) == CHOOSE i \in 1..Len(CodecOrder) : CodecOrder[i] = codec

\* The sort key (-v.height, v.codec.value) of a before that of b.
KeyLess(a, b) ==
    \/ height(a) > height(b)
    \/ height(a) = height(b) /\ CodecRank(a.codec) < CodecRank(b.codec)

\* list.sort(key=...) is stable: v goes behind the elements whose key is
\* not greater than its own.
RECURSIVE InsertByKey(_, _)
InsertByKey(v, s) ==
    IF s = <<>> THEN <<v>>
    ELSE IF KeyLess(v, Head(s)) THEN <<v>> \o s
    ELSE <<Head(s)>> \o InsertByKey(v, Tail(s))

\* A sort that leaves the list as it is.
sort_skipped(variants) == variants

\* abr_ladder.py:121-124: variants.sort(key=lambda v: (-v.height, v.codec.value)).
RECURSIVE sort_variants(_)
sort_variants(variants) ==
    IF variants = <<>> THEN <<>>
    ELSE InsertByKey(variants[Len(variants)],
                     sort_variants(SubSeq(variants, 1, Len(variants) - 1)))

\* A ladder that leaves out the rung of the source's own height.
get_abr_ladder_below_source(source_width, source_height, enable_h265) ==
    sort_variants(
       SelectSeq(ABR_LADDER_H264, LAMBDA variant : height(variant) < source_height)
       \o (IF enable_h265
           THEN SelectSeq(ABR_LADDER_H265,
                          LAMBDA variant : height(variant) < source_height)
           ELSE <<>>))

\* abr_ladder.py:79-126.
get_abr_ladder(source_width, source_height, enable_h265) ==
    sort_variants(
       SelectSeq(ABR_LADDER_H264, LAMBDA variant : height(variant) <= source_height)
       \o (IF enable_h265
           THEN SelectSeq(ABR_LADDER_H265,
                          LAMBDA variant : height(variant) <= source_height)
           ELSE <<>>))

\* Source resolutions: MezzanineInfo allows widths 320..7680 and heights
\* 240..4320 (models.py:262-267).
SourceWidths == {320, 854, 1440, 1920, 3840}

SourceHeights == {240, 360, 480, 719, 720, 1080, 2160}

(* --------------------------- job_builder.py ---------------------------- *)
(* A request carries the fields of TranscodeJobRequest the builder reads;  *)
(* its manifest holds the audio and the subtitle tracks. Outputs keep what *)
(* tells them apart: name, container, the video description and the audio  *)
(* and caption descriptions. Record fields are listed in the order of      *)
(* their first appearance in this module.                                  *)

\* models.py:419-422, ABRVariant.name.
name(variant) == variant.codec \o "_" \o str(height(variant)) \o "p"

\* iso_639_1.lower().split("-")[0] on the language tags of AudioLanguage
\* and SubtitleLanguage (models.py:18-50) and on "xx", a tag of neither.
BaseLanguage ==
    [ tag \in {"ja", "en", "es", "pt", "fr", "de", "ko", "zh", "it", "ru", "ar", "xx"} |-> tag ]
    @@ ( "es-419" :> "es" @@ "es-ES" :> "es" @@ "pt-BR" :> "pt" @@ "pt-PT" :> "pt"
         @@ "zh-Hans" :> "zh" @@ "zh-Hant" :> "zh" )

\* models.py:18-30.
AudioLanguage == {"ja", "en", "es", "pt", "fr", "de", "ko", "zh", "it", "ru"}

\* models.py:33-48.
SubtitleLanguage ==
    {"en", "es-419", "es-ES", "pt-BR", "pt-PT", "fr", "de", "it", "ar", "ru",
     "zh-Hans", "zh-Hant", "ko"}

\* A table with the audio languages only.
ISO_639_1_TO_639_2_of_audio ==
    [ en |-> "ENG", ja |-> "JPN", es |-> "SPA", fr |-> "FRA", de |-> "DEU",
      it |-> "ITA", pt |-> "POR", ru |-> "RUS", zh |-> "ZHO", ko |-> "KOR" ]

\* job_builder.py:19-50.
ISO_639_1_TO_639_2 ==
    [ en |-> "ENG", ja |-> "JPN", es |-> "SPA", fr |-> "FRA", de |-> "DEU",
      it |-> "ITA", pt |-> "POR", ru |-> "RUS", zh |-> "ZHO", ko |-> "KOR",
      ar |-> "ARA", hi |-> "HIN", th |-> "THA", vi |-> "VIE", id |-> "IND",
      ms |-> "MSA", tl |-> "TGL", pl |-> "POL", nl |-> "NLD", tr |-> "TUR",
      sv |-> "SWE", da |-> "DAN", no |-> "NOR", fi |-> "FIN", cs |-> "CES",
      hu |-> "HUN", ro |-> "RON", el |-> "ELL", he |-> "HEB", uk |-> "UKR" ]

\* The ValueError of job_builder.py:69-72, standing where the code would
\* have been.
UnsupportedLanguage == "ValueError: Unsupported language code"

\* job_builder.py:53-73.
get_iso_639_2_code(iso_639_1) ==
    LET code == BaseLanguage[iso_639_1] IN
    IF code \notin DOMAIN ISO_639_1_TO_639_2 THEN UnsupportedLanguage
    ELSE ISO_639_1_TO_639_2[code]

\* abr_ladder.py:129-206, calculate_qvbr_settings: the codec and its
\* bitrates; max_bitrate is int(bitrate_kbps * 1.5 * 1000).
calculate_qvbr_settings(variant) ==
    [ Codec |-> IF variant.codec = "h264" THEN "H_264" ELSE "H_265",
      MaxAverageBitrate |-> variant.bitrate_kbps * 1000,
      MaxBitrate |-> (variant.bitrate_kbps * 1500) ]

\* The audio description of one track in a video output
\* (job_builder.py:302-311).
AudioDescription(track) ==
    [ AudioSourceName |-> "Audio_" \o track.language,
      LanguageCode |-> get_iso_639_2_code(track.language),
      Channels |-> track.channels ]

\* The video description of a rendition (job_builder.py:290-301, 432-440).
VideoDescription(variant) ==
    [ Width |-> width(variant), Height |-> height(variant),
      CodecSettings |-> calculate_qvbr_settings(variant) ]

\* job_builder.py:127-191: the input, its audio selectors and, when the
\* manifest has subtitle tracks, its caption selectors.
build_input(request) ==
    LET audio_selectors ==
          { "Audio_" \o request.manifest.audio_tracks[i].language :
               i \in DOMAIN request.manifest.audio_tracks }
        caption_selectors ==
          { "Caption_" \o request.manifest.subtitle_tracks[i].language :
               i \in DOMAIN request.manifest.subtitle_tracks }
        input_config ==
          [ FileInput |-> request.input_s3_uri, AudioSelectors |-> audio_selectors ]
    IN IF caption_selectors # {}
       THEN input_config @@ [ CaptionSelectors |-> caption_selectors ]
       ELSE input_config

\* job_builder.py:269-312.
build_hls_video_output(request, variant) ==
    [ VideoDescription |-> VideoDescription(variant),
      NameModifier |-> "_" \o name(variant),
      Container |-> "M3U8",
      AudioDescriptions |->
         [ i \in DOMAIN request.manifest.audio_tracks |->
              AudioDescription(request.manifest.audio_tracks[i]) ] ]

\* job_builder.py:315-341.
build_hls_audio_output(request, track) ==
    [ NameModifier |-> "_audio_" \o track.language,
      Container |-> "M3U8",
      AudioDescriptions |-> << AudioDescription(track) @@ [ StreamName |-> track.label ] >> ]

\* job_builder.py:344-373.
build_hls_caption_output(request, track) ==
    [ NameModifier |-> "_caption_" \o track.language,
      Container |-> "RAW",
      CaptionDescriptions |->
         << [ LanguageCode |-> get_iso_639_2_code(track.language),
              CaptionSelectorName |-> "Caption_" \o track.language,
              DestinationType |-> "WEBVTT",
              LanguageDescription |-> track.label ] >> ]

\* job_builder.py:422-441.
build_dash_video_output(request, variant) ==
    [ VideoDescription |-> VideoDescription(variant),
      NameModifier |-> "_" \o name(variant),
      Container |-> "MPD" ]

\* job_builder.py:444-464.
build_dash_audio_output(request, track) ==
    [ NameModifier |-> "_audio_" \o track.language,
      Container |-> "MPD",
      AudioDescriptions |-> << AudioDescription(track) @@ [ StreamName |-> track.label ] >> ]

\* job_builder.py:194-266: the video outputs, then the audio outputs, then
\* the caption outputs.
build_hls_output_group(request, variants) ==
    LET video == [ i \in DOMAIN variants |-> build_hls_video_output(request, variants[i]) ]
        audio == [ i \in DOMAIN request.manifest.audio_tracks |->
                     build_hls_audio_output(request, request.manifest.audio_tracks[i]) ]
        caption == [ i \in DOMAIN request.manifest.subtitle_tracks |->
                       build_hls_caption_output(request, request.manifest.subtitle_tracks[i]) ]
    IN [ Name |-> "HLS",
         Type |-> "HLS_GROUP_SETTINGS",
         Destination |-> request.output_s3_prefix \o "/hls/",
         CaptionLanguageSetting |->
            IF request.manifest.subtitle_tracks # <<>> THEN "INSERT" ELSE "OMIT",
         Outputs |-> video \o audio \o caption ]

\* job_builder.py:376-419: the video outputs, then the audio outputs.
build_dash_output_group(request, variants) ==
    LET video == [ i \in DOMAIN variants |-> build_dash_video_output(request, variants[i]) ]
        audio == [ i \in DOMAIN request.manifest.audio_tracks |->
                     build_dash_audio_output(request, request.manifest.audio_tracks[i]) ]
    IN [ Name |-> "DASH",
         Type |-> "DASH_ISO_GROUP_SETTINGS",
         Destination |-> request.output_s3_prefix \o "/dash/",
         Outputs |-> video \o audio ]

\* The HLS group routed every variant of the request.
h264_variants_unfiltered(request) == request.abr_variants

\* job_builder.py:99.
h264_variants(request) ==
    SelectSeq(request.abr_variants, LAMBDA v : v.codec = "h264")

\* job_builder.py:100.
h265_variants(request) ==
    SelectSeq(request.abr_variants, LAMBDA v : v.codec = "h265")

\* The HLS group emitted whenever it is asked for.
emit_hls_without_variants(request) == request.output_hls

\* job_builder.py:111.
emit_hls(request) == request.output_hls /\ h264_variants(request) # <<>>

\* job_builder.py:117-119.
emit_dash(request) ==
    /\ request.output_dash
    /\ h264_variants(request) \o h265_variants(request) # <<>>

\* A ValueError of _get_iso_639_2_code (job_builder.py:68-72) inside an
\* output of the group: it is not caught by any builder, so it leaves
\* build_mediaconvert_job.
DescriptionRaises(output, key) ==
    /\ key \in DOMAIN output
    /\ \E d \in DOMAIN output[key] : output[key][d].LanguageCode = UnsupportedLanguage

GroupRaises(group) ==
    \E k \in DOMAIN group.Outputs :
       \/ DescriptionRaises(group.Outputs[k], "AudioDescriptions")
       \/ DescriptionRaises(group.Outputs[k], "CaptionDescriptions")

\* The specification stamped with the time it was built at.
build_mediaconvert_job_timestamped(request) ==
    [ TimecodeConfig |-> [ Source |-> "ZEROBASED" ],
      Inputs |-> << build_input(request) >>,
      OutputGroups |-> << build_dash_output_group(request, request.abr_variants) >>,
      BuiltAt |-> now ]

\* job_builder.py:76-124.
build_mediaconvert_job(request) ==
    LET all_variants == h264_variants(request) \o h265_variants(request)
        hls == IF emit_hls(request)
               THEN << build_hls_output_group(request, h264_variants(request)) >>
               ELSE << >>
        dash == IF emit_dash(request)
                THEN << build_dash_output_group(request, all_variants) >>
                ELSE << >>
        job_settings ==
           [ TimecodeConfig |-> [ Source |-> "ZEROBASED" ],
             Inputs |-> << build_input(request) >>,
             OutputGroups |-> hls \o dash ]
    IN IF \E k \in DOMAIN job_settings.OutputGroups :
             GroupRaises(job_settings.OutputGroups[k])
       THEN Raised
       ELSE job_settings

\* The audio tracks of a manifest (models.py:77-105; exactly one default
\* track, models.py:356-363) and its subtitle tracks (models.py:108-136).
AudioTrack(language, label, is_default, track_index) ==
    [ language |-> language, channels |-> 2, label |-> label,
      is_default |-> is_default, track_index |-> track_index ]

SubtitleTrack(language, label) ==
    [ language |-> language, label |-> label,
      file_path |-> "subs/" \o language \o ".vtt", format |-> "WebVTT" ]

AudioTrackLists ==
    { << AudioTrack("ja", "Japanese", TRUE, 1) >>,
      << AudioTrack("ja", "Japanese", TRUE, 1), AudioTrack("en", "English", FALSE, 2) >> }

SubtitleTrackLists ==
    { << >>,
      << SubtitleTrack("en", "English"), SubtitleTrack("es-419", "Spanish (Latin America)") >> }

\* Ladders of the selector, a ladder of H.265 rungs only and a ladder with
\* H.265 ahead of H.264 (abr_variants, models.py:441-444, is never empty).
VariantLists ==
    { get_abr_ladder(1920, 1080, TRUE),
      get_abr_ladder(1920, 1080, FALSE),
      get_abr_ladder(854, 480, TRUE),
      ABR_LADDER_H265,
      << ABR_LADDER_H265[2], ABR_LADDER_H264[2], ABR_LADDER_H264[4] >> }

\* models.py:425-457, the fields the builder reads.
TranscodeJobRequest(audio_tracks, subtitle_tracks, abr_variants, output_hls, output_dash) ==
    [ manifest |-> [ manifest_id |-> BaseManifest.manifest_id,
                     audio_tracks |-> audio_tracks,
                     subtitle_tracks |-> subtitle_tracks ],
      input_s3_uri |-> "s3://mezzanine/" \o BaseManifest.manifest_id \o "/video.mxf",
      output_s3_prefix |-> "s3://output/" \o BaseManifest.manifest_id,
      abr_variants |-> abr_variants,
      output_hls |-> output_hls,
      output_dash |-> output_dash ]

Requests ==
    { TranscodeJobRequest(a, s, v, hls, dash) :
         a \in AudioTrackLists, s \in SubtitleTrackLists, v \in VariantLists,
         hls \in BOOLEAN, dash \in BOOLEAN }

(* --------------------------- handler.py -------------------------------- *)

\* A TranscodeManifest by the fields the handler, the token and the builder
\* read (models.py:303-344; the mezzanine's resolution, models.py:262-268);
\* audio_languages lists the languages of audio_tracks.
Manifest(manifest_id, resolution_width, resolution_height) ==
    [ manifest_id |-> manifest_id, checksum_md5 |-> "d41d8cd98f00b204e9800998ecf8427e",
      file_size_bytes |-> 1024, audio_languages |-> <<"ja", "en">>,
      priority |-> 0,
      audio_tracks |-> << AudioTrack("ja", "Japanese", TRUE, 1),
                          AudioTrack("en", "English", FALSE, 2) >>,
      subtitle_tracks |-> << SubtitleTrack("en", "English") >>,
      resolution_width |-> resolution_width, resolution_height |-> resolution_height ]

\* The manifests the invocations are triggered with.
Manifests == { Manifest("ep-001", 1920, 1080), Manifest("ep-002", 1280, 720) }

\* The manifest whose trigger is delivered more than once.
Redelivered == CHOOSE m \in Manifests : m.manifest_id = "ep-001"

\* A manifest of the smallest mezzanine the manifest model accepts
\* (resolution_width ge=320, resolution_height ge=240), below every rung of
\* the ladders.
LowRes == Manifest("ep-003", 320, 240)

Tokens ==
    { generate_idempotency_token(m, TRANSCODE_PROFILE_VERSION) :
        m \in Manifests \cup {LowRes} }

\* config.py:112-122: the feature flags, with their defaults.
Settings == [ enable_h265 |-> TRUE, enable_dash |-> TRUE ]

\* models.py:441-444: abr_variants has min_length=1; pydantic raises a
\* ValidationError for a shorter list.
ValidJobRequest(request) == Len(request.abr_variants) >= 1

\* handler.py:146-181: the ladder for the source's resolution, the job
\* request made of it, and the job settings built from the request.  An
\* exception raised on the way leaves the handler.
build_job_settings(manifest, output_s3_prefix, settings) ==
    LET abr_variants == get_abr_ladder(manifest.resolution_width,
                                       manifest.resolution_height,
                                       settings.enable_h265)
        job_request ==
          [ manifest |-> [ manifest_id |-> manifest.manifest_id,
                           audio_tracks |-> manifest.audio_tracks,
                           subtitle_tracks |-> manifest.subtitle_tracks ],
            input_s3_uri |-> "s3://mezzanine/" \o manifest.manifest_id \o "/video.mxf",
            output_s3_prefix |-> output_s3_prefix,
            abr_variants |-> abr_variants,
            output_hls |-> TRUE,
            output_dash |-> settings.enable_dash ]
    IN IF ~ValidJobRequest(job_request) THEN Raised
       ELSE build_mediaconvert_job(job_request)

\* The token of each manifest under the current profile version.
IdempotencyTokens ==
    [ manifest \in Manifests \cup {LowRes} |->
        generate_idempotency_token(manifest, TRANSCODE_PROFILE_VERSION) ]

\* handler.py:104-107.
Token(e) == IdempotencyTokens[e.manifest]

\* What handler.py:146-181 makes of each manifest and the output prefix of
\* its event under the deployed settings; the build reads nothing else.
BuiltJobSettings ==
    [ manifest \in Manifests \cup {LowRes} |->
        build_job_settings(manifest, OutputPrefix(manifest), Settings) ]

\* handler.py:181, job_settings for the event.
JobSettings(e) == BuiltJobSettings[e.manifest]

JobMetadata(e) ==
    [ manifest_id |-> e.manifest.manifest_id, idempotency_token |-> Token(e) ]

\* A fast path that skips finished jobs only.
SkipStatusesCompleteOnly == {"COMPLETE"}

\* handler.py:114.
SkipStatuses == {"COMPLETE", "SUBMITTED", "PROGRESSING"}

\* handler.py:128-144, "Returning existing job (idempotent)".
SkipExisting(e, item) ==
    [ job_settings |-> None,
      skip_transcode |-> TRUE, mock_mode |-> FALSE, idempotent |-> TRUE,
      existing_job |-> [ job_id |-> Get(item, "job_id"), status |-> Get(item, "status"),
                         output_prefix |-> Get(item, "output_prefix") ],
      job_metadata |-> JobMetadata(e) ]

\* handler.py:197-209, "Job slot already reserved by another process".
SkipReserved(e, res) ==
    [ job_settings |-> None,
      skip_transcode |-> TRUE, mock_mode |-> FALSE, idempotent |-> TRUE,
      existing_job |-> res.existing_job,
      job_metadata |-> JobMetadata(e) ]

\* handler.py:247-274, the job configuration for Step Functions to submit.
JobConfigured(e) ==
    [ job_settings |-> JobSettings(e),
      skip_transcode |-> FALSE, mock_mode |-> FALSE, idempotent |-> FALSE,
      existing_job |-> None,
      job_metadata |-> JobMetadata(e) ]

\* A handler that does not look at reservation["reserved"].
HandlerReturnIgnoringReservation(e, res) ==
    IF res = Raised THEN Raised ELSE JobConfigured(e)

\* A handler that escalates a lost reservation as a failure.
HandlerReturnRaisingOnLoss(e, res) ==
    IF res = Raised THEN Raised
    ELSE IF res.reserved THEN JobConfigured(e)
    ELSE Raised

\* handler.py:185-274: what the handler does with reserve_job_slot's outcome.
HandlerReturn(e, res) ==
    IF res = Raised THEN Raised
    ELSE IF res.reserved THEN JobConfigured(e)
    ELSE SkipReserved(e, res)

Init ==
    /\ table = [t \in Tokens |-> NoItem]
    /\ now = 0
    /\ storeUp = TRUE
    /\ pc = [p \in Procs |-> "idle"]
    /\ event = [p \in Procs |-> Unset]
    /\ returned = Unset
    /\ updateRet = Unset
    /\ cleanupItems = {}
    /\ returns = [p \in Procs |-> Unset]
    /\ calls = <<>>

\* Invocation p returns: res is what reserve_job_slot gave it (Unset when it
\* was not called), resp the handler's response.
Return(p, res, resp) ==
    /\ returned' = [by |-> p, reservation |-> res, response |-> resp]
    /\ pc' = [pc EXCEPT ![p] = "done"]

\* handler.py:110-144: the fast-path check with check_idempotency, and the
\* skip it may end in.  Otherwise the ladder and the job settings are built
\* (handler.py:146-181) and the invocation stands before reserve_job_slot.
FastPathCheck(p, e) ==
    LET existing_job == check_idempotency(Token(e)) IN
    /\ IF existing_job # None /\ Get(existing_job, "status") \in SkipStatuses
       THEN Return(p, Unset, SkipExisting(e, existing_job))
       ELSE /\ pc' = [pc EXCEPT ![p] = "reserve"]
            /\ UNCHANGED returned
    /\ UNCHANGED table

\* idempotency.py:145-173 and 191-204, handler.py:185-274: the conditional
\* put_item of reserve_job_slot.  It reserves the slot, or raises, or finds
\* the condition failed and goes on to fetch the existing record.
ReservePut(p, e) ==
    LET t == Token(e) IN
    IF ~storeUp THEN
       /\ Return(p, ReserveStoreError, HandlerReturn(e, ReserveStoreError))
       /\ UNCHANGED table
    ELSE IF attribute_not_exists(t) THEN
       /\ table' = [table EXCEPT ![t] =
             PendingItem(t, e.manifest.manifest_id, e.output_s3_prefix)]
       /\ Return(p, [reserved |-> TRUE], HandlerReturn(e, [reserved |-> TRUE]))
    ELSE
       /\ table' = [table EXCEPT ![t] = put_item_rejected(t)]
       /\ pc' = [pc EXCEPT ![p] = "fetch"]
       /\ UNCHANGED returned

\* A handler that reserves the slot before it builds the job.
ReserveBeforeBuild(p, e) ==
    IF JobSettings(e) = Raised
    THEN /\ table' = [table EXCEPT ![Token(e)] =
                IF storeUp /\ attribute_not_exists(Token(e))
                THEN PendingItem(Token(e), e.manifest.manifest_id, e.output_s3_prefix)
                ELSE @]
         /\ Return(p, Unset, Raised)
    ELSE ReservePut(p, e)

\* handler.py:146-189: the ladder, the job request and the job settings
\* are built before reserve_job_slot is called; an exception in one of
\* them ends the invocation there.
BuildAndReserve(p, e) ==
    IF JobSettings(e) = Raised
    THEN /\ Return(p, Unset, Raised)
         /\ UNCHANGED table
    ELSE ReservePut(p, e)

\* handler.py:84-110: an invocation starts on its event; without
\* force_reprocess it makes the fast-path check, with it it goes straight
\* on to build the job and reserve the slot.
Invoke(p, m) ==
    /\ pc[p] = "idle"
    /\ \E force \in BOOLEAN :
         LET e == [ manifest |-> m, output_s3_prefix |-> OutputPrefix(m),
                    force_reprocess |-> force ]
         IN /\ event' = [event EXCEPT ![p] = e]
            /\ IF force THEN BuildAndReserve(p, e) ELSE FastPathCheck(p, e)
    /\ UNCHANGED << now, storeUp, updateRet, cleanupItems >>

\* handler.py:146-189: after a fast-path check that did not end in a skip
\* the invocation builds the job and calls reserve_job_slot.
Reserve(p) ==
    /\ pc[p] = "reserve"
    /\ BuildAndReserve(p, event[p])
    /\ UNCHANGED << now, storeUp, event, updateRet, cleanupItems >>

\* idempotency.py:175-190, handler.py:191-209: after
\* ConditionalCheckFailedException, reserve_job_slot fetches the existing
\* record with check_idempotency and the handler returns the skip.
ReserveFetch(p) ==
    /\ pc[p] = "fetch"
    /\ LET res == [ reserved |-> FALSE,
                    existing_job |-> check_idempotency(Token(event[p])) ]
       IN Return(p, res, HandlerReturn(event[p], res))
    /\ UNCHANGED << table, now, storeUp, event, updateRet, cleanupItems >>

\* idempotency.py:207-273, called by Step Functions once MediaConvert has
\* accepted the job.
store_job_reference(t, job_id, status, output_prefix) ==
    /\ IF storeUp
       THEN table' = [table EXCEPT ![t] =
               update_item(t,
                 [job_id |-> job_id, status |-> status]
                 @@ (IF Truthy(output_prefix)
                     THEN [output_prefix |-> output_prefix] ELSE <<>>))]
       ELSE table' = table
    /\ updateRet' = UpdateResult(storeUp)
    /\ UNCHANGED << now, storeUp, pc, event, returned, cleanupItems, returns, calls >>

\* idempotency.py:276-340, called by Step Functions when the MediaConvert
\* job completes or fails.
update_job_status(t, status, job_id) ==
    /\ IF storeUp
       THEN table' = [table EXCEPT ![t] =
               update_item(t,
                 [status |-> status]
                 @@ (IF Truthy(job_id) THEN [job_id |-> job_id] ELSE <<>>))]
       ELSE table' = table
    /\ updateRet' = UpdateResult(storeUp)
    /\ UNCHANGED << now, storeUp, pc, event, returned, cleanupItems, returns, calls >>

\* idempotency.py:354-364: cleanup_expired_records scans for the expired
\* items.  A failing scan ends the call (it returns 0).
CleanupScan ==
    /\ cleanupItems = {}
    /\ cleanupItems' = IF storeUp THEN { t \in Tokens : Expired(t) } ELSE {}
    /\ UNCHANGED << table, now, storeUp, pc, event, returned, updateRet, returns, calls >>

\* idempotency.py:366-376: one delete_item of the loop over the scanned
\* items, by key and without a condition.  A failing delete ends the call.
CleanupDelete(t) ==
    /\ t \in cleanupItems
    /\ IF storeUp
       THEN /\ table' = [table EXCEPT ![t] = NoItem]
            /\ cleanupItems' = cleanupItems \ {t}
       ELSE /\ table' = table
            /\ cleanupItems' = {}
    /\ UNCHANGED << now, storeUp, pc, event, returned, updateRet, returns, calls >>

\* DynamoDB's TTL process deletes an item whose ttl has passed
\* (idempotency.py:149-160 sets the attribute, 346-347 relies on it).
TtlExpire(t) ==
    /\ Expired(t)
    /\ table' = [table EXCEPT ![t] = NoItem]
    /\ UNCHANGED << now, storeUp, pc, event, returned, updateRet, cleanupItems,
                    returns, calls >>

\* Time passes.
Tick ==
    /\ now < MaxTicks * TickDays
    /\ now' = now + TickDays
    /\ UNCHANGED << table, storeUp, pc, event, returned, updateRet, cleanupItems,
                    returns, calls >>

\* DynamoDB becomes unreachable (or throttles), and recovers.
StoreOutage ==
    /\ storeUp' = ~storeUp
    /\ UNCHANGED << table, now, pc, event, returned, updateRet, cleanupItems,
                    returns, calls >>

StepFunctions(t) ==
    \/ \E job_id \in JobIds : store_job_reference(t, job_id, "SUBMITTED", NoneStr)
    \/ \E status \in FinalStatuses : update_job_status(t, status, NoneStr)

Cleanup == CleanupScan \/ \E t \in Tokens : CleanupDelete(t)

(* --------------------- calls of the pure functions --------------------- *)

\* The last two calls are kept, the latest last.
Latest(s) == IF Len(s) > 2 THEN Tail(s) ELSE s

\* A call is recorded with its arguments, its result, the time it was made
\* at and the number of records the reservation store held.
Called(fn, args, ret) ==
    /\ calls' = Latest(Append(calls,
          [ fn |-> fn, args |-> args, ret |-> ret, at |-> now,
            records |-> Cardinality({ t \in Tokens : table[t] # NoItem }) ]))
    /\ UNCHANGED << table, now, storeUp, pc, event, returned, updateRet,
                    cleanupItems, returns >>

CallTokenOf(manifests, profile_versions) ==
    \E manifest \in manifests, profile_version \in profile_versions :
       Called("generate_idempotency_token", << manifest, profile_version >>,
              generate_idempotency_token(manifest, profile_version))

CallToken == CallTokenOf(TokenManifests, ProfileVersions)

CallLadder ==
    \E source_width \in SourceWidths, source_height \in SourceHeights,
       enable_h265 \in BOOLEAN :
       Called("get_abr_ladder", << source_width, source_height, enable_h265 >>,
              get_abr_ladder(source_width, source_height, enable_h265))

CallBuildOf(requests) ==
    \E request \in requests :
       Called("build_mediaconvert_job", << request >>, build_mediaconvert_job(request))

CallBuild == CallBuildOf(Requests)

NextToken == CallToken

SpecToken == Init /\ [][NextToken]_vars

\* Duplicate deliveries of one manifest's trigger, with Step Functions'
\* status updates for it, the clock, expiry, cleanup and store outages.
Invocations == Procs \cap (1..MaxInvocations)

Next ==
    \/ \E p \in Invocations : Invoke(p, Redelivered) /\ UNCHANGED << returns, calls >>
    \/ \E p \in Invocations : Reserve(p) /\ UNCHANGED << returns, calls >>
    \/ \E p \in Invocations : ReserveFetch(p) /\ UNCHANGED << returns, calls >>
    \/ StepFunctions(IdempotencyTokens[Redelivered])
    \/ Cleanup
    \/ \E t \in Tokens : TtlExpire(t)
    \/ Tick
    \/ StoreOutage

Spec == Init /\ [][Next]_vars

\* The history keeps what reserve_job_slot returned to each invocation.
Record(p) ==
    /\ returns' = [returns EXCEPT ![p] =
                     IF pc'[p] = "done" THEN returned'.reservation ELSE @]
    /\ UNCHANGED calls

\* N concurrent invocations, for either manifest, against an empty,
\* reachable table and nothing else: no status update, no expiry, no
\* outage.
NextReserve ==
    \/ \E p \in Procs, m \in Manifests : Invoke(p, m) /\ Record(p)
    \/ \E p \in Procs : Reserve(p) /\ Record(p)
    \/ \E p \in Procs : ReserveFetch(p) /\ Record(p)

SpecReserve == Init /\ [][NextReserve]_vars

NextLadder == CallLadder

SpecLadder == Init /\ [][NextLadder]_vars

\* Requests whose manifests have two tracks of one language, regional
\* subtitle tags, and the tag "xx" that the translation table lacks, on a
\* ladder with H.264 rungs and on one without.
TrackAudioLists ==
    { << AudioTrack("ja", "Japanese", TRUE, 1), AudioTrack("en", "English", FALSE, 2) >>,
      << AudioTrack("en", "English", TRUE, 1), AudioTrack("en", "English (Dub)", FALSE, 2) >>,
      << AudioTrack("ja", "Japanese", TRUE, 1), AudioTrack("xx", "Unknown", FALSE, 2) >> }

TrackSubtitleLists ==
    { << >>,
      << SubtitleTrack("en", "English"), SubtitleTrack("pt-BR", "Portuguese (Brazil)") >>,
      << SubtitleTrack("ar", "Arabic"), SubtitleTrack("ar", "Arabic (Forced)") >>,
      << SubtitleTrack("xx", "Unknown") >> }

TrackRequests ==
    { TranscodeJobRequest(a, s, v, hls, dash) :
         a \in TrackAudioLists, s \in TrackSubtitleLists,
         v \in { get_abr_ladder(854, 480, TRUE), ABR_LADDER_H265 },
         hls \in BOOLEAN, dash \in BOOLEAN }

CallBuildOnTracks == CallBuildOf(TrackRequests)

CallTranslate ==
    \E iso_639_1 \in AudioLanguage \cup SubtitleLanguage :
       Called("_get_iso_639_2_code", << iso_639_1 >>, get_iso_639_2_code(iso_639_1))

NextTracks == CallBuildOnTracks \/ CallTranslate

SpecTracks == Init /\ [][NextTracks]_vars

NextBuild == CallBuild

SpecBuild == Init /\ [][NextBuild]_vars

\* The two functions called again and again on the manifests of the handler
\* and on two requests, while time passes, the store goes down and up, and
\* the pipeline writes the record of the manifest.
RepeatedRequests ==
    { TranscodeJobRequest(a, s, get_abr_ladder(1920, 1080, TRUE), TRUE, dash) :
         a \in { x \in AudioTrackLists : Len(x) = 2 },
         s \in { x \in SubtitleTrackLists : x # <<>> },
         dash \in BOOLEAN }

CallTokenAgain == CallTokenOf(Manifests, {TRANSCODE_PROFILE_VERSION})

CallBuildAgain == CallBuildOf(RepeatedRequests)

NextRepeated ==
    \/ CallTokenAgain
    \/ CallBuildAgain
    \/ StepFunctions(IdempotencyTokens[Redelivered])
    \/ Tick
    \/ StoreOutage

SpecRepeated == Init /\ [][NextRepeated]_vars

\* Mezzanine resolutions from the smallest the manifest model accepts up
\* to 4K, and every setting of the two feature flags.
SourceResolutions ==
    { <<320, 240>>, <<640, 360>>, <<854, 480>>, <<1280, 720>>, <<1920, 1080>>,
      <<3840, 2160>> }

FeatureFlags == [ enable_h265 : BOOLEAN, enable_dash : BOOLEAN ]

\* handler.py:146-181 on a manifest of each resolution.
CallBuildJobSettings ==
    \E resolution \in SourceResolutions, settings \in FeatureFlags :
       LET manifest == Manifest("ep-001", resolution[1], resolution[2]) IN
       Called("handler.build_job_settings", << manifest, settings >>,
              build_job_settings(manifest, OutputPrefix(manifest), settings))

NextHandlerBuild == CallLadder \/ CallBuildJobSettings

SpecHandlerBuild == Init /\ [][NextHandlerBuild]_vars

\* Triggers for the redelivered manifest and for a manifest whose source
\* lies below the ladder, with Step Functions' updates for the former, the
\* clock and store outages.
NextBuildFailure ==
    \/ \E p \in Invocations, m \in {Redelivered, LowRes} :
          Invoke(p, m) /\ UNCHANGED << returns, calls >>
    \/ \E p \in Invocations : Reserve(p) /\ UNCHANGED << returns, calls >>
    \/ \E p \in Invocations : ReserveFetch(p) /\ UNCHANGED << returns, calls >>
    \/ StepFunctions(IdempotencyTokens[Redelivered])
    \/ Tick
    \/ StoreOutage

SpecBuildFailure == Init /\ [][NextBuildFailure]_vars

(* ------------------------------ claims --------------------------------- *)

\* The invocations that have called, or are about to call, with token t.
Callers(t) == { p \in Procs : event[p] # Unset /\ Token(event[p]) = t }

\* reserve_job_slot returned {"reserved": True} to p.
Won(p) == returns[p] = [reserved |-> TRUE]

\* reserve_job_slot returned {"reserved": False, "existing_job": ...} to p.
Lost(p) == "existing_job" \in DOMAIN returns[p] /\ ~returns[p].reserved

\* In this step invocation p returns a response.
Returns(p) == pc[p] # "done" /\ pc'[p] = "done"

\* In this step invocation p issues reserve_job_slot's conditional put_item.
PutAttempted(p) ==
    /\ \/ pc[p] = "reserve" /\ pc'[p] # "reserve"
       \/ pc[p] = "idle" /\ pc'[p] # "idle" /\ event'[p].force_reprocess
    /\ JobSettings(event'[p]) # Raised

\* In this step invocation p makes the handler's fast-path check.
FastPathChecked(p) ==
    pc[p] = "idle" /\ pc'[p] # "idle" /\ ~event'[p].force_reprocess

\* C1: of N concurrent reserve_job_slot calls with one token, on a store
\* that held no record for it and answers, exactly one returns
\* reserved=true, none raises, and every other one returns reserved=false
\* with the same existing_job, the winner's PENDING record.
C1_ExactlyOnce ==
    \A t \in Tokens :
       LET callers == Callers(t)
           winners == { p \in callers : Won(p) }
           losers  == { p \in callers : Lost(p) }
       IN /\ Cardinality(winners) <= 1
          /\ \A p \in callers : returns[p] # Raised
          /\ \A p \in callers : pc[p] = "done" => p \in winners \cup losers
          /\ (\E p \in callers : pc[p] = "done") => Cardinality(winners) = 1
          /\ \A p, q \in losers :
                returns[p].existing_job = returns[q].existing_job
          /\ \A p \in losers :
                /\ returns[p].existing_job # None
                /\ returns[p].existing_job.status = "PENDING"

\* All NumProcs invocations called with one token and have returned: one
\* won, the others lost.
C1_Witness ==
    \E t \in Tokens :
       /\ Callers(t) = Procs
       /\ \A p \in Procs : pc[p] = "done"
       /\ Cardinality({ p \in Procs : Won(p) }) = 1
       /\ Cardinality({ p \in Procs : Lost(p) }) = NumProcs - 1

\* C2: whatever the interleaving, the force_reprocess flags and the
\* outcome of the fast-path check, an invocation returns skip_transcode =
\* false with a job specification only in the step that creates the token's
\* record; so while one record exists, at most one invocation does.
C2_OneJobSpecPerRecord ==
    [][ \A p \in Procs :
          ( /\ Returns(p)
            /\ returned'.response # Raised
            /\ ~returned'.response.skip_transcode )
          => LET t == Token(event'[p]) IN
             /\ returned'.response.job_settings # None
             /\ table[t] = NoItem
             /\ table'[t] # NoItem
             /\ table'[t].status = "PENDING" ]_vars

\* One invocation has returned the job specification while a second one,
\* with force_reprocess, has lost the conditional put on the same token.
C2_Witness ==
    /\ returned # Unset
    /\ returned.response # Raised
    /\ ~returned.response.skip_transcode
    /\ \E q \in Procs :
          /\ q # returned.by
          /\ pc[q] = "fetch"
          /\ event[q].force_reprocess
          /\ Token(event[q]) = Token(event[returned.by])
          /\ table[Token(event[q])] # NoItem

\* C3: a reserve_job_slot that loses the conditional put returns
\* reserved=false with the record stored under the token at that moment;
\* existing_job is never absent.
C3_LoserReceivesStoredRecord ==
    [][ \A p \in Procs :
          (pc[p] = "fetch" /\ pc'[p] = "done")
          => LET res == returned'.reservation IN
             /\ ~res.reserved
             /\ res.existing_job # None
             /\ res.existing_job = table[Token(event[p])] ]_vars

\* C4: a record comes into existence only in status PENDING;
\* store_job_reference and update_job_status on an absent token create
\* nothing.
C4_NoTransitionSkipsPending ==
    [][ \A t \in Tokens :
          (table[t] = NoItem /\ table'[t] # NoItem)
          => table'[t].status = "PENDING" ]_vars

\* C5: the status of a record only moves forward: COMPLETE and ERROR are
\* final, and a SUBMITTED record does not go back to PENDING.
C5_StatusOnlyMovesForward ==
    [][ \A t \in Tokens :
          (table[t] # NoItem /\ table'[t] # NoItem)
          => /\ table[t].status \in {"COMPLETE", "ERROR"}
                  => table'[t].status = table[t].status
             /\ table[t].status = "SUBMITTED"
                  => table'[t].status # "PENDING" ]_vars

\* C6: when the store does not answer reserve_job_slot's conditional put,
\* the call raises (it returns neither reserved=true nor reserved=false),
\* the handler returns no response at all, and nothing is written.
C6_ReserveOutageRaises ==
    [][ \A p \in Procs :
          (PutAttempted(p) /\ ~storeUp)
          => /\ pc'[p] = "done"
             /\ returned' = [by |-> p, reservation |-> Raised, response |-> Raised]
             /\ table' = table ]_vars

\* An invocation whose reserve_job_slot raised during an outage.
C6_Witness ==
    /\ returned # Unset
    /\ returned.reservation = Raised
    /\ returned.response = Raised
    /\ ~storeUp

\* C7: check_idempotency never raises.  Where reserve_job_slot fetches the
\* existing record it gets None during an outage, and otherwise the stored
\* record exactly when there is one; the handler's fast-path check goes on
\* (to a skip or to the reservation) and skips exactly when the store
\* answers with a record in a skip status, reporting that record.
C7_CheckNeverRaises ==
    [][ \A p \in Procs :
          /\ (pc[p] = "fetch" /\ pc'[p] = "done")
             => LET t == Token(event[p]) IN
                returned'.reservation =
                   [ reserved |-> FALSE,
                     existing_job |-> IF ~storeUp THEN None
                                      ELSE IF table[t] # NoItem THEN table[t]
                                      ELSE None ]
          /\ FastPathChecked(p)
             => LET t == Token(event'[p]) IN
                /\ pc'[p] \in {"done", "reserve"}
                /\ pc'[p] = "done"
                     <=> ( /\ storeUp
                           /\ table[t] # NoItem
                           /\ table[t].status \in SkipStatuses )
                /\ pc'[p] = "done"
                     => returned' = [ by |-> p, reservation |-> Unset,
                                      response |-> SkipExisting(event'[p], table[t]) ]
       ]_vars

\* At time 0, when no record can have expired: reserve_job_slot lost the
\* conditional put to a record, and its check_idempotency, made during an
\* outage, reported none.
C7_Witness ==
    /\ now = 0
    /\ returned # Unset
    /\ returned.reservation = [reserved |-> FALSE, existing_job |-> None]
    /\ table[Token(event[returned.by])] # NoItem

\* A step in which an update_item of store_job_reference or
\* update_job_status changed a record or created one.
Updated ==
    /\ pc' = pc
    /\ \E t \in Tokens : table'[t] # NoItem /\ table'[t] # table[t]

\* C8: store_job_reference and update_job_status never raise: they return
\* False when the store write fails, and then nothing is written, and True
\* when it succeeds.
C8_UpdatesNeverRaise ==
    [][ /\ updateRet' # Raised
        /\ updateRet' # updateRet
             => /\ updateRet' = [returned |-> storeUp]
                /\ ~storeUp => table' = table
        /\ Updated => updateRet' = [returned |-> TRUE] /\ storeUp ]_vars

\* A status update failed during an outage and left the record PENDING.
C8_Witness ==
    /\ updateRet = [returned |-> FALSE]
    /\ ~storeUp
    /\ \E t \in Tokens : table[t] # NoItem /\ table[t].status = "PENDING"

C10_ForceReprocessReturnsJob ==
    ( /\ returned # Unset
      /\ event[returned.by].force_reprocess
      /\ returned.response # Raised )
    => /\ ~returned.response.skip_transcode
       /\ returned.response.job_settings # None

\* What the token is documented to depend on.
TokenKey(manifest, profile_version) ==
    << manifest.manifest_id, manifest.checksum_md5, manifest.file_size_bytes,
       sorted(manifest.audio_languages), profile_version >>

TokenCalls == { i \in DOMAIN calls : calls[i].fn = "generate_idempotency_token" }

\* C11: the token depends only on manifest_id, checksum_md5,
\* file_size_bytes, the sorted audio languages and profile_version: two
\* calls that agree on these (whatever the priority, the callback_url and
\* the order of the audio tracks) give the same token, and two calls that
\* differ in one of them, the checksum or the profile version in
\* particular, give different tokens.
C11_TokenDependsOnKeyOnly ==
    \A i, j \in TokenCalls :
       (calls[i].ret = calls[j].ret)
       <=> (TokenKey(calls[i].args[1], calls[i].args[2])
              = TokenKey(calls[j].args[1], calls[j].args[2]))

\* Two manifests that differ in priority, callback_url and the order of
\* their audio tracks got the same token.
C11_Witness ==
    /\ Len(calls) = 2
    /\ calls[1].fn = "generate_idempotency_token"
    /\ calls[2].fn = "generate_idempotency_token"
    /\ calls[1].args[1].priority # calls[2].args[1].priority
    /\ calls[1].args[1].callback_url # calls[2].args[1].callback_url
    /\ calls[1].args[1].audio_languages # calls[2].args[1].audio_languages
    /\ calls[1].ret = calls[2].ret

LadderCalls == { i \in DOMAIN calls : calls[i].fn = "get_abr_ladder" }

Range(s) == { s[i] : i \in DOMAIN s }

\* The rungs of a ladder table whose height is at most h.
Qualifying(ladder, h) == { v \in Range(ladder) : v.resolution[2] <= h }

\* C13: get_abr_ladder returns exactly the rungs of the policy tables
\* whose height is <= source_height, each once, the H.265 rungs only when
\* enable_h265 is set: nothing returned is higher than the source and no
\* qualifying rung is left out.
C13_LadderIsTheQualifyingRungs ==
    \A i \in LadderCalls :
       LET source_height == calls[i].args[2]
           enable_h265 == calls[i].args[3]
           ret == calls[i].ret
           expected == Qualifying(ABR_LADDER_H264, source_height)
                       \cup (IF enable_h265
                             THEN Qualifying(ABR_LADDER_H265, source_height)
                             ELSE {})
       IN /\ Range(ret) = expected
          /\ Len(ret) = Cardinality(expected)
          /\ \A k \in DOMAIN ret : ret[k].resolution[2] <= source_height
          /\ ~enable_h265 => \A k \in DOMAIN ret : ret[k].codec = "h264"

\* A 1080p source with H.265 enabled got 4 H.264 and 2 H.265 variants, and
\* the call before it, for a 480p source, no 720p and no 1080p rung.
C13_Witness ==
    /\ Len(calls) = 2
    /\ calls[1].fn = "get_abr_ladder"
    /\ calls[1].args = <<854, 480, TRUE>>
    /\ \A k \in DOMAIN calls[1].ret : calls[1].ret[k].resolution[2] <= 480
    /\ Len(calls[1].ret) = 2
    /\ calls[2].fn = "get_abr_ladder"
    /\ calls[2].args = <<1920, 1080, TRUE>>
    /\ Cardinality({ k \in DOMAIN calls[2].ret : calls[2].ret[k].codec = "h264" }) = 4
    /\ Cardinality({ k \in DOMAIN calls[2].ret : calls[2].ret[k].codec = "h265" }) = 2

\* C14: no variant get_abr_ladder returns is wider than source_width or
\* higher than source_height.
C14_NoUpscaleInEitherDimension ==
    \A i \in LadderCalls :
       \A k \in DOMAIN calls[i].ret :
          /\ calls[i].ret[k].resolution[1] <= calls[i].args[1]
          /\ calls[i].ret[k].resolution[2] <= calls[i].args[2]

\* C15: the returned ladder is sorted by height descending, and at equal
\* height the H.264 variant comes before the H.265 variant.
C15_LadderOrdered ==
    \A i \in LadderCalls :
       LET ret == calls[i].ret IN
       \A k, l \in DOMAIN ret :
          k < l => /\ ret[k].resolution[2] >= ret[l].resolution[2]
                   /\ ret[k].resolution[2] = ret[l].resolution[2]
                        => ~(ret[k].codec = "h265" /\ ret[l].codec = "h264")

\* A ladder of both codecs over several heights: h264 1080p, h265 1080p,
\* h264 720p, h265 720p, then the lower H.264 rungs.
C15_Witness ==
    \E i \in LadderCalls :
       LET ret == calls[i].ret IN
       /\ Len(ret) = 6
       /\ ret[1].codec = "h264" /\ ret[1].resolution[2] = 1080
       /\ ret[2].codec = "h265" /\ ret[2].resolution[2] = 1080
       /\ ret[3].codec = "h264" /\ ret[3].resolution[2] = 720
       /\ ret[4].codec = "h265" /\ ret[4].resolution[2] = 720
       /\ ret[6].resolution[2] = 360

\* C16: at every resolution both ladder tables have, the H.265 bitrate is
\* strictly below the H.264 bitrate; so it is for every pair of variants of
\* one resolution in a returned ladder.
C16_H265SavesBandwidth ==
    /\ \A a \in Range(ABR_LADDER_H264), b \in Range(ABR_LADDER_H265) :
          a.resolution = b.resolution => b.bitrate_kbps < a.bitrate_kbps
    /\ \A i \in LadderCalls :
          \A k, l \in DOMAIN calls[i].ret :
             ( /\ calls[i].ret[k].codec = "h264"
               /\ calls[i].ret[l].codec = "h265"
               /\ calls[i].ret[k].resolution = calls[i].ret[l].resolution )
             => calls[i].ret[l].bitrate_kbps < calls[i].ret[k].bitrate_kbps

\* A returned ladder holds 1080p and 720p in both codecs, the H.265 one
\* with the lower bitrate.
C16_Witness ==
    \E i \in LadderCalls :
       \A h \in {720, 1080} :
          \E k, l \in DOMAIN calls[i].ret :
             /\ calls[i].ret[k].codec = "h264"
             /\ calls[i].ret[l].codec = "h265"
             /\ calls[i].ret[k].resolution[2] = h
             /\ calls[i].ret[l].resolution = calls[i].ret[k].resolution
             /\ calls[i].ret[l].bitrate_kbps < calls[i].ret[k].bitrate_kbps

(* ----------------------- the built specification ----------------------- *)

BuildCalls == { i \in DOMAIN calls : calls[i].fn = "build_mediaconvert_job" }

Request(i) == calls[i].args[1]

OutputGroups(i) == Range(calls[i].ret.OutputGroups)

Named(i, group_name) == { g \in OutputGroups(i) : g.Name = group_name }

IsVideo(output) == "VideoDescription" \in DOMAIN output

IsAudioOnly(output) == "AudioDescriptions" \in DOMAIN output /\ ~IsVideo(output)

IsCaption(output) == "CaptionDescriptions" \in DOMAIN output

Count(outputs, Kind(_)) == Cardinality({ k \in DOMAIN outputs : Kind(outputs[k]) })

HasCodec(request, codec) ==
    \E k \in DOMAIN request.abr_variants : request.abr_variants[k].codec = codec

\* C17: whatever mix of H.264 and H.265 variants a request passes in, no
\* output of the HLS output group of the built specification uses the
\* H.265 codec.
C17_NoH265InHls ==
    \A i \in BuildCalls : \A g \in Named(i, "HLS") : \A k \in DOMAIN g.Outputs :
       IsVideo(g.Outputs[k])
          => g.Outputs[k].VideoDescription.CodecSettings.Codec # "H_265"

\* A request mixing both codecs was built with HLS asked for, and its HLS
\* group has video outputs.
C17_Witness ==
    \E i \in BuildCalls :
       /\ Request(i).output_hls
       /\ HasCodec(Request(i), "h264") /\ HasCodec(Request(i), "h265")
       /\ \E g \in Named(i, "HLS") : Count(g.Outputs, IsVideo) > 0

\* C18: the HLS output group is emitted iff output_hls is set and the
\* request has an H.264 variant, the DASH output group iff output_dash is
\* set and the request has a variant, nothing else is emitted, and no
\* emitted group has zero video renditions.
C18_GroupsEmittedWhenRoutable ==
    \A i \in BuildCalls :
       LET request == Request(i)
           hls == IF request.output_hls /\ HasCodec(request, "h264") THEN 1 ELSE 0
           dash == IF request.output_dash /\ request.abr_variants # <<>> THEN 1 ELSE 0
           groups == calls[i].ret.OutputGroups
       IN /\ Cardinality({ k \in DOMAIN groups : groups[k].Name = "HLS" }) = hls
          /\ Cardinality({ k \in DOMAIN groups : groups[k].Name = "DASH" }) = dash
          /\ Len(groups) = hls + dash
          /\ \A k \in DOMAIN groups : Count(groups[k].Outputs, IsVideo) > 0

\* A ladder of H.265 rungs only was built with HLS and DASH asked for: the
\* HLS group is omitted and the DASH group is there.
C18_Witness ==
    \E i \in BuildCalls :
       /\ Request(i).output_hls /\ Request(i).output_dash
       /\ ~HasCodec(Request(i), "h264")
       /\ Named(i, "HLS") = {}
       /\ Named(i, "DASH") # {}

\* C19: every emitted output group, HLS and DASH alike, holds one video
\* rendition per variant routed to it, one audio-only rendition per audio
\* track and one caption rendition per subtitle track of the manifest.
C19_GroupHoldsEveryRendition ==
    \A i \in BuildCalls : \A g \in OutputGroups(i) :
       LET request == Request(i)
           routed == IF g.Name = "HLS"
                     THEN { k \in DOMAIN request.abr_variants :
                               request.abr_variants[k].codec = "h264" }
                     ELSE DOMAIN request.abr_variants
       IN /\ Count(g.Outputs, IsVideo) = Cardinality(routed)
          /\ Count(g.Outputs, IsAudioOnly) = Len(request.manifest.audio_tracks)
          /\ Count(g.Outputs, IsCaption) = Len(request.manifest.subtitle_tracks)

\* C20: every video rendition of every output group carries one audio
\* description per audio track of the manifest.
C20_VideoCarriesEveryAudioTrack ==
    \A i \in BuildCalls : \A g \in OutputGroups(i) : \A k \in DOMAIN g.Outputs :
       IsVideo(g.Outputs[k])
          => /\ "AudioDescriptions" \in DOMAIN g.Outputs[k]
             /\ Len(g.Outputs[k].AudioDescriptions)
                   = Len(Request(i).manifest.audio_tracks)

(* ----------------------------- determinism ----------------------------- *)

Deterministic == { "generate_idempotency_token", "build_mediaconvert_job" }

TranslateCalls == { i \in DOMAIN calls : calls[i].fn = "_get_iso_639_2_code" }

AudioLanguages(request) ==
    { request.manifest.audio_tracks[k].language : k \in DOMAIN request.manifest.audio_tracks }

SubtitleLanguages(request) ==
    { request.manifest.subtitle_tracks[k].language :
         k \in DOMAIN request.manifest.subtitle_tracks }

\* A manifest the manifest model accepts has its languages from the enums.
Validated(request) ==
    /\ AudioLanguages(request) \subseteq AudioLanguage
    /\ SubtitleLanguages(request) \subseteq SubtitleLanguage

\* The three-letter codes of the two-letter to three-letter table.
ThreeLetterCodes == { ISO_639_1_TO_639_2[code] : code \in DOMAIN ISO_639_1_TO_639_2 }

\* C29: every AudioLanguage and SubtitleLanguage value translates to a
\* three-letter code, and build_mediaconvert_job raises for no request
\* whose manifest takes its languages from the two enums.
C29_ValidatedLanguagesTranslate ==
    /\ \A i \in TranslateCalls : calls[i].ret \in ThreeLetterCodes
    /\ \A i \in BuildCalls : Validated(Request(i)) => calls[i].ret # Raised

\* Arabic, a subtitle language that is no audio language, was translated,
\* and a manifest with regional subtitle tags was built with HLS.
C29_Witness ==
    /\ \E i \in TranslateCalls : calls[i].args = << "ar" >> /\ calls[i].ret = "ARA"
    /\ \E i \in BuildCalls :
          /\ Validated(Request(i))
          /\ "pt-BR" \in SubtitleLanguages(Request(i))
          /\ Named(i, "HLS") # {}

\* The descriptions of a specification under a key, of all outputs of all
\* its output groups.
Descriptions(job_settings, key) ==
    UNION { UNION { IF key \in DOMAIN g.Outputs[k] THEN Range(g.Outputs[k][key]) ELSE {} :
                       k \in DOMAIN g.Outputs } :
            g \in Range(job_settings.OutputGroups) }

Translatable(language) == BaseLanguage[language] \in DOMAIN ISO_639_1_TO_639_2

\* C21: for every request and every combination of enabled output groups,
\* either build_mediaconvert_job raises, or every audio and every subtitle
\* language of the manifest appears in the specification with its
\* three-letter code; a language the table lacks always makes it raise.
C21_TranslationTotalOrFail ==
    \A i \in BuildCalls :
       LET request == Request(i)
           ret == calls[i].ret
       IN /\ ret # Raised =>
               /\ \A l \in AudioLanguages(request) :
                     \E d \in Descriptions(ret, "AudioDescriptions") :
                        /\ d.AudioSourceName = "Audio_" \o l
                        /\ d.LanguageCode = ISO_639_1_TO_639_2[BaseLanguage[l]]
               /\ \A l \in SubtitleLanguages(request) :
                     \E d \in Descriptions(ret, "CaptionDescriptions") :
                        /\ d.CaptionSelectorName = "Caption_" \o l
                        /\ d.LanguageCode = ISO_639_1_TO_639_2[BaseLanguage[l]]
          /\ (\E l \in AudioLanguages(request) \cup SubtitleLanguages(request) :
                 ~Translatable(l))
             => ret = Raised

\* C22: the input of a built specification has exactly one audio selector
\* per audio track and one caption selector per subtitle track, also when
\* two tracks share a language, each named from the language of its track.
C22_OneSelectorPerTrack ==
    \A i \in BuildCalls :
       calls[i].ret # Raised =>
          LET request == Request(i)
              input == calls[i].ret.Inputs[1]
              captions == IF "CaptionSelectors" \in DOMAIN input
                          THEN input.CaptionSelectors ELSE {}
          IN /\ Cardinality(input.AudioSelectors) = Len(request.manifest.audio_tracks)
             /\ Cardinality(captions) = Len(request.manifest.subtitle_tracks)
             /\ input.AudioSelectors = { "Audio_" \o l : l \in AudioLanguages(request) }
             /\ captions = { "Caption_" \o l : l \in SubtitleLanguages(request) }

(* --------------------------- handler outcomes -------------------------- *)

\* reserve_job_slot returned reserved=false.
LostReservation(res) == "reserved" \in DOMAIN res /\ ~res.reserved

\* reserve_job_slot returned reserved=true.
WonReservation(res) == "reserved" \in DOMAIN res /\ res.reserved

\* C23: every outcome of the handler is reported distinctly: a result is
\* either a skip (skip_transcode and idempotent true, no job_settings) or
\* a submit (both false, job_settings there); a lost reservation is
\* returned as a skip, a won one as a submit, and a failure of
\* reserve_job_slot is raised, never returned.
C23_OutcomesDistinct ==
    returned # Unset =>
       LET res == returned.reservation
           resp == returned.response
       IN /\ resp # Raised =>
               \/ /\ resp.skip_transcode /\ resp.idempotent
                  /\ resp.job_settings = None
               \/ /\ ~resp.skip_transcode /\ ~resp.idempotent
                  /\ resp.job_settings # None
          /\ LostReservation(res) => resp # Raised /\ resp.skip_transcode
          /\ WonReservation(res) => resp # Raised /\ ~resp.skip_transcode
          /\ res = Raised => resp = Raised
          /\ res = Unset /\ resp # Raised => resp.skip_transcode

\* An invocation lost the reservation and returned the skip result with
\* the stored record.
C23_Witness ==
    /\ returned # Unset
    /\ LostReservation(returned.reservation)
    /\ returned.reservation.existing_job # None
    /\ returned.response # Raised
    /\ returned.response.skip_transcode
    /\ returned.response.job_settings = None

PutRejected(p) ==
    PutAttempted(p) /\ storeUp /\ table[Token(event'[p])] # NoItem

\* C27: a reserve_job_slot call that loses the conditional insert leaves
\* the existing record as it was, in the rejected put and in the read that
\* follows it: status, job_id, manifest_id, output_prefix, created_at and
\* ttl keep their values.
C27_LostReserveLeavesRecord ==
    [][ \A p \in Procs :
          (PutRejected(p) \/ (pc[p] = "fetch" /\ pc'[p] = "done"))
          => /\ table' = table
             /\ \A t \in Tokens :
                   \A key \in {"status", "job_id", "manifest_id", "output_prefix",
                               "created_at", "ttl"} :
                      Get(table'[t], key) = Get(table[t], key) ]_vars

\* A reservation was lost, some time after the record was created, to a
\* SUBMITTED record with a job id, which is still the stored one.
C27_Witness ==
    /\ returned # Unset
    /\ LostReservation(returned.reservation)
    /\ returned.reservation.existing_job # None
    /\ returned.reservation.existing_job.status = "SUBMITTED"
    /\ returned.reservation.existing_job = table[Token(event[returned.by])]
    /\ "created_at" \in DOMAIN table[Token(event[returned.by])]
    /\ table[Token(event[returned.by])].created_at < now

\* The attributes reserve_job_slot fixes and no update expression names.
ReservationAttributes == {"ttl", "manifest_id", "created_at"}

\* C28: store_job_reference and update_job_status never change a record's
\* ttl, manifest_id or created_at (nor add or drop one of them), so a
\* reserved record keeps the expiry of 7 days after its reservation
\* whatever its status becomes, and once that time has passed the record,
\* finished or not, is one the expiry removes.
C28_UpdatesKeepReservationAttributes ==
    [][ \A t \in Tokens :
          /\ (table[t] # NoItem /\ table'[t] # table[t] /\ StepFunctions(t))
             => /\ table'[t] # NoItem
                /\ \A key \in ReservationAttributes :
                      /\ key \in DOMAIN table'[t] <=> key \in DOMAIN table[t]
                      /\ key \in DOMAIN table[t] => table'[t][key] = table[t][key]
          /\ (table[t] # NoItem /\ "created_at" \in DOMAIN table[t])
             => /\ table[t].ttl = table[t].created_at + IDEMPOTENCY_TTL_DAYS
                /\ table[t].created_at + IDEMPOTENCY_TTL_DAYS < now
                   => ENABLED TtlExpire(t) ]_vars

\* A reserved record that was submitted and completed has outlived the
\* 7 days counted from its reservation.
C28_Witness ==
    \E t \in Tokens :
       /\ table[t] # NoItem
       /\ "created_at" \in DOMAIN table[t]
       /\ table[t].status = "COMPLETE"
       /\ Get(table[t], "job_id") \in JobIds
       /\ table[t].created_at + IDEMPOTENCY_TTL_DAYS < now
       /\ Expired(t)

\* The token's record is there with a status the fast path does not skip
\* on (PENDING, ERROR).
Blocking(t) == table[t] # NoItem /\ Get(table[t], "status") \notin SkipStatuses

BuildReached(p) ==
    \/ pc[p] = "reserve" /\ pc'[p] # "reserve"
    \/ pc[p] = "idle" /\ pc'[p] # "idle" /\ event'[p].force_reprocess

\* C25: when the ladder, the job request or the job settings cannot be
\* built, the handler raises to its caller without calling
\* reserve_job_slot, and no step of the invocation, the fast-path check
\* included, changes the store: a token whose manifest cannot be built
\* never gets a record.
C25_BuildFailurePropagates ==
    [][ \A p \in Procs :
          (pc'[p] # pc[p] /\ JobSettings(event'[p]) = Raised)
          => /\ table' = table
             /\ table[Token(event'[p])] = NoItem
             /\ pc'[p] \in {"reserve", "done"}
             /\ BuildReached(p)
                => /\ pc'[p] = "done"
                   /\ returned' = [ by |-> p, reservation |-> Unset,
                                    response |-> Raised ] ]_vars

\* An invocation without force_reprocess for the manifest below the ladder
\* has raised without a reservation, on a store that answers and holds the
\* other manifest's record.
C25_Witness ==
    /\ returned # Unset
    /\ returned.response = Raised
    /\ returned.reservation = Unset
    /\ event[returned.by].manifest = LowRes
    /\ ~event[returned.by].force_reprocess
    /\ storeUp
    /\ \E t \in Tokens : table[t] # NoItem
    /\ table[Token(event[returned.by])] = NoItem

HandlerBuildCalls == { i \in DOMAIN calls : calls[i].fn = "handler.build_job_settings" }

Heights(ladder) == { height(v) : v \in Range(ladder) }

\* C30: each H.265 rung's height is an H.264 rung's height, so every
\* non-empty ladder get_abr_ladder returns has an H.264 variant (one at the
\* height of each of its H.265 variants); and the job settings the handler
\* builds, whenever it builds some, contain the HLS output group: the
\* handler never comes away with a specification without output groups.
C30_HandlerSpecHasHls ==
    /\ Heights(ABR_LADDER_H265) \subseteq Heights(ABR_LADDER_H264)
    /\ \A i \in LadderCalls :
          /\ calls[i].ret # <<>>
             => \E v \in Range(calls[i].ret) : v.codec = "h264"
          /\ \A v \in Range(calls[i].ret) :
                v.codec = "h265"
                => \E u \in Range(calls[i].ret) :
                      u.codec = "h264" /\ height(u) = height(v)
    /\ \A i \in HandlerBuildCalls :
          LET manifest == calls[i].args[1]
              settings == calls[i].args[2]
              ladder == get_abr_ladder(manifest.resolution_width,
                                       manifest.resolution_height,
                                       settings.enable_h265)
          IN /\ calls[i].ret = Raised <=> ladder = <<>>
             /\ calls[i].ret # Raised
                => /\ calls[i].ret.OutputGroups # <<>>
                   /\ Cardinality(Named(i, "HLS")) = 1
                   /\ \A g \in Named(i, "HLS") :
                         Count(g.Outputs, IsVideo)
                           = Cardinality({ v \in Range(ladder) : v.codec = "h264" })

\* The handler built settings with HLS alone (DASH switched off) for the
\* smallest source that has a ladder, and a ladder with H.265 variants
\* was returned.
C30_Witness ==
    /\ \E i \in HandlerBuildCalls :
          /\ calls[i].args[1].resolution_height = 360
          /\ ~calls[i].args[2].enable_dash
          /\ calls[i].ret # Raised
          /\ Len(calls[i].ret.OutputGroups) = 1
    /\ \E i \in LadderCalls :
          \E v \in Range(calls[i].ret) : v.codec = "h265"

====
